---- MODULE Spec2Model ----
(***************************************************************************)
(* A model of run_remove_attachments.py: the walk over a message's MIME    *)
(* tree, the classification of a part as an attachment, the synthesis of   *)
(* the storage filename, the store on disk and the loop of main over the   *)
(* archives of a directory.                                                *)
(*                                                                         *)
(* Strings the code inspects character by character (attachment names,     *)
(* archive filenames) are sequences of one-character strings.  Strings the *)
(* code only copies (the formatted date, the sender address, a uuid, the   *)
(* literal pieces of a format string) are single tokens.                   *)
(***************************************************************************)
EXTENDS Integers, Sequences, FiniteSets, TLC

\* ------------------------------------------------------------------ bounds
MaxParts == 3      \* leaf parts of a message tree given to the walker
MaxDepth == 2      \* nesting depth of containers below the root
MaxSize == 1       \* largest size threshold; payload lengths are 1..MaxSize+1

\* ------------------------------------------------------------ Python values
None == <<"None">>          \* a name that is None
NoDisposition == "None"     \* get_content_disposition() returning None

\* ---------------------------------------------------------------- messages
\* email.message.Message: is_multipart(), get_content_type(),
\* get_content_disposition(), get_filename(), a 'Content-Type' header spelled
\* exactly so (hdr), the encoded payload (its length size, the bytes it decodes
\* to data, or the text of a placeholder) and the child parts.
Leaf(ctype, disp, fname, hdr, size, data) ==
    [multi |-> FALSE, ctype |-> ctype, disp |-> disp, fname |-> fname,
     hdr |-> hdr, size |-> size, data |-> data, text |-> <<>>, kids |-> <<>>]

Container(kids) ==
    [multi |-> TRUE, ctype |-> "multipart/mixed", disp |-> NoDisposition,
     fname |-> None, hdr |-> TRUE, size |-> 0, data |-> "", text |-> <<>>,
     kids |-> kids]

\* As line 48 would be if it named text/plain alone
IsTextPartPlainOnly(part) == part.ctype = "text/plain"

\* walk_over_parts, line 48
IsTextPart(part) == part.ctype \in {"text/plain", "text/html"}

\* As line 54 would be with >= for >
OverThresholdInclusive(content_size, size) == content_size >= size

\* walk_over_parts, line 54
OverThreshold(content_size, size) == content_size > size

\* As lines 57-59 would be if they wrote the first slot of the list
SetPayloadAtFirst(payload, i, replacement) ==
    [payload EXCEPT ![1] = replacement]

\* walk_over_parts, lines 57-59: payload[i] = replacement on the parent's list
SetPayloadAt(payload, i, replacement) ==
    [payload EXCEPT ![i] = replacement]

\* str.endswith
EndsWith(s, suffix) ==
    /\ Len(s) >= Len(suffix)
    /\ SubSeq(s, Len(s) - Len(suffix) + 1, Len(s)) = suffix

DotEml == <<".", "e", "m", "l">>
DotBin == <<".", "b", "i", "n">>
DotPdf == <<".", "p", "d", "f">>

\* mimetypes.guess_extension on the types of the model; None when unknown
GuessExtension(ctype) ==
    CASE ctype = "application/pdf" -> DotPdf
      [] ctype = "text/plain" -> <<".", "t", "x", "t">>
      [] ctype = "text/html" -> <<".", "h", "t", "m", "l">>
      [] OTHER -> None

\* str(uuid.uuid4()): the u-th identifier drawn, distinct from the others
UuidStr(u) == "uuid" \o ToString(u)

\* create_default_name: None when no header is spelled 'Content-Type'
CreateDefaultName(part, u) ==
    IF ~part.hdr THEN None
    ELSE LET extension == GuessExtension(part.ctype)
         IN  <<part.disp, "-", UuidStr(u)>>
                 \o (IF extension # None THEN extension ELSE DotBin)

\* parse_attachment: [some, size, name, drew]; some = FALSE is (None, None),
\* drew tells whether a uuid was drawn
ParseAttachment(part, u) ==
    LET nothing == [some |-> FALSE, size |-> 0, name |-> None, drew |-> FALSE]
    IN
    IF part.disp \notin {"inline", "attachment"} THEN nothing
    ELSE LET drew == part.fname = None /\ part.hdr
             attachment_name ==
                 IF part.fname # None THEN part.fname
                 ELSE CreateDefaultName(part, u)
         IN  IF attachment_name = None THEN [nothing EXCEPT !.drew = drew]
             ELSE IF EndsWith(attachment_name, DotEml)
                  THEN [nothing EXCEPT !.drew = drew]
             ELSE [some |-> TRUE, size |-> part.size,
                   name |-> attachment_name, drew |-> drew]

\* ------------------------------------------------------ filename synthesizer
GoodDate == "Mon, 01 Jan 2024 10:30:00 -0500"
ParenDate == "Fri, 02 Jun 2023 08:15:00 +0000 (UTC)"
BadDate == "garbage"
GoodFrom == "Jane Doe <jane@example.com>"
BadFrom == "undisclosed-recipients:;"

\* get_storage_filename, lines 116-131: the parse cascade and strftime, on the
\* Date headers of the model; "ValueError" when every parser refuses the header
DateStr(msg_date) ==
    CASE msg_date = GoodDate -> "20240101T1030"
      [] msg_date = ParenDate -> "20230602T0815"
      [] OTHER -> "ValueError"

\* get_storage_filename, line 133: the first address the regex finds;
\* "AttributeError" when re.search finds none
FromAddress(msg_from) ==
    CASE msg_from = GoodFrom -> "jane@example.com"
      [] OTHER -> "AttributeError"

\* get_storage_filename, line 136: the characters of the class
\* [<>:"\/\|\?\*\t\n\r\0]; in it \/ is the slash, \| the bar, \? the question
\* mark and \* the star, so no member is the backslash
ReplacedChars == {"<", ">", ":", "\"", "/", "|", "?", "*", "TAB", "LF", "CR", "NUL"}

RECURSIVE ReSub(_)
ReSub(res) ==
    IF res = <<>> THEN <<>>
    ELSE <<IF Head(res) \in ReplacedChars THEN "-" ELSE Head(res)>> \o ReSub(Tail(res))

\* get_storage_filename raises for these headers
StorageFilenameRaises(msg_date, msg_from) ==
    DateStr(msg_date) = "ValueError" \/ FromAddress(msg_from) = "AttributeError"

\* get_storage_filename, lines 134-136, when it does not raise
GetStorageFilename(attachment_name, msg_date, msg_from) ==
    ReSub(<<DateStr(msg_date), " from-", FromAddress(msg_from), " ">> \o attachment_name)

\* ---------------------------------------------------------- attachment store
\* hashlib.md5(content).hexdigest() on the contents of the model
Md5Hex(content) ==
    CASE content = "c1" -> "a9f7e97965d6cf799a529102a973b8b9"
      [] content = "c2" -> "9ab62b5ef34a985438bfdf7ee0102229"
      [] OTHER -> "d41d8cd98f00b204e9800998ecf8427e"

\* str.rstrip(chars): drops every trailing character that is in chars
RECURSIVE RStrip(_, _)
RStrip(s, chars) ==
    IF s # <<>> /\ s[Len(s)] \in chars THEN RStrip(SubSeq(s, 1, Len(s) - 1), chars)
    ELSE s

\* store_attachment, line 99
StoreFolder(filename) == RStrip(filename, {".", "m", "b", "o", "x"}) \o <<" attachments">>

\* As lines 105-108 would be without the test for an existing file
CollisionFreeNameNever(exists, content, plain) == plain

\* store_attachment, lines 105-108: the name to write under
CollisionFreeName(exists, content, plain) ==
    IF exists THEN <<Md5Hex(content), " ">> \o plain ELSE plain

\* The walker's state: the counter, the files and folders on disk, the uuids
\* drawn, the calls of store_attachment made and the exception raised, if any
NoFault == [at |-> 0, mode |-> "none"]

\* What a file holds after open(..., 'wb') truncated it and write failed
Torn == "torn"

\* store_attachment.  fault.at names the call that fails and fault.mode where:
\* in os.makedirs, in open, or in write after open has truncated the file.
\* Returns the state and, in ret, the store_filename.
StoreAttachment(part, attachment_name, filename, msg_date, msg_from, st, fault) ==
    LET call == st.stores + 1
        st1 == [st EXCEPT !.stores = call]
        failing == fault.at = call
        plain == GetStorageFilename(attachment_name, msg_date, msg_from)
        path == StoreFolder(filename)
        st2 == [st1 EXCEPT !.dirs = @ \cup {path}]
        content == part.data
        store_filename ==
            CollisionFreeName(<<path, plain>> \in DOMAIN st.files, content, plain)
    IN
    IF StorageFilenameRaises(msg_date, msg_from)
    THEN [st |-> [st1 EXCEPT !.err = "filename"], ret |-> None]
    ELSE IF path \notin st.dirs /\ failing /\ fault.mode = "makedirs"
    THEN [st |-> [st1 EXCEPT !.err = "makedirs"], ret |-> None]
    ELSE IF failing /\ fault.mode = "open"
    THEN [st |-> [st2 EXCEPT !.err = "open"], ret |-> None]
    ELSE IF failing /\ fault.mode = "write"
    THEN [st |-> [st2 EXCEPT !.err = "write",
                            !.files = (<<path, store_filename>> :> Torn) @@ @],
          ret |-> None]
    ELSE [st |-> [st2 EXCEPT !.files = (<<path, store_filename>> :> content) @@ @],
          ret |-> store_filename]

\* '{:.0f}'.format(content_size / 1e3): round half to even
KiloBytes(content_size) ==
    LET q == content_size \div 1000
        r == content_size % 1000
    IN  IF r > 500 \/ (r = 500 /\ q % 2 = 1) THEN q + 1 ELSE q

StorageMark == "). Storage filename: "

\* As get_replace_text would be if the note were attached under the name and
\* disposition of the part it replaces
GetReplaceTextAsAttachment(attachment_name, store_filename, content_size) ==
    LET note == <<"Attachment \"">> \o attachment_name
                  \o <<"\" with size ", ToString(KiloBytes(content_size)),
                       " kB has been removed (", "today", StorageMark>>
                  \o store_filename \o <<"\r\n">>
    IN  [multi |-> FALSE, ctype |-> "application/octet-stream", disp |-> "attachment",
         fname |-> attachment_name, hdr |-> TRUE, size |-> Len(note), data |-> "",
         text |-> note, kids |-> <<>>]

\* get_replace_text: a MIMEText, so text/plain with no disposition and no
\* filename, whose payload is the formatted note
GetReplaceText(attachment_name, store_filename, content_size) ==
    LET note == <<"Attachment \"">> \o attachment_name
                  \o <<"\" with size ", ToString(KiloBytes(content_size)),
                       " kB has been removed (", "today", StorageMark>>
                  \o store_filename \o <<"\r\n">>
    IN  [multi |-> FALSE, ctype |-> "text/plain", disp |-> NoDisposition,
         fname |-> None, hdr |-> TRUE, size |-> Len(note), data |-> "",
         text |-> note, kids |-> <<>>]

\* ------------------------------------------------------------------- walker
\* walk_over_parts.  ctx holds the arguments that do not change in the
\* recursion: filename, msg_date, msg_from, size and the fault the disk will
\* raise.  The loop stops where an exception is raised (st.err).
RECURSIVE WalkOverParts(_, _, _), WalkLoop(_, _, _, _)
WalkLoop(parent, i, st, ctx) ==
    IF st.err # "none" \/ i > Len(parent.kids) THEN [node |-> parent, st |-> st]
    ELSE LET part == parent.kids[i] IN
         IF IsTextPart(part) THEN WalkLoop(parent, i + 1, st, ctx)
         ELSE IF part.multi
         THEN LET r == WalkOverParts(part, st, ctx)
              IN  WalkLoop([parent EXCEPT !.kids[i] = r.node], i + 1, r.st, ctx)
         ELSE LET a == ParseAttachment(part, st.uuid + 1)
                  st1 == IF a.drew THEN [st EXCEPT !.uuid = @ + 1] ELSE st
              IN
              IF a.some /\ OverThreshold(a.size, ctx.size)
              THEN LET s == StoreAttachment(part, a.name, ctx.filename, ctx.msg_date,
                                            ctx.msg_from, st1, ctx.fault)
                   IN
                   IF s.st.err # "none" THEN [node |-> parent, st |-> s.st]
                   ELSE WalkLoop(
                          [parent EXCEPT !.kids = SetPayloadAt(@, i,
                               GetReplaceText(a.name, s.ret, a.size))],
                          i + 1, [s.st EXCEPT !.count = @ + 1], ctx)
              ELSE WalkLoop(parent, i + 1, st1, ctx)

WalkOverParts(parent, st, ctx) ==
    IF ~parent.multi THEN [node |-> parent, st |-> st]
    ELSE WalkLoop(parent, 1, st, ctx)

\* -------------------------------------------------------------------- state
VARIABLES
    wtree,      \* walker: the message given to walk_over_parts
    wsize,      \* walker: the size threshold
    wruns,      \* walker: the result [node, st] of each run made so far
    nname,      \* synthesizer: the attachment name given to get_storage_filename
    nresult,    \* synthesizer: what it returned, <<>> before the call
    sdisk,      \* store: the files and folders on disk
    slog,       \* store: the calls of store_attachment made, with their results
    pc,         \* main: where it is
    seen,       \* main: the filenames of the directory iterated so far
    filename,   \* main: the filename of the current iteration
    mbox,       \* main: the mailbox.mbox of the current archive
    items,      \* main: what mbox.items() returned, the messages as parsed
    key,        \* main: the key of the next message of the loop
    st,         \* main: count, the disk and the exception raised, if any
    setitems,   \* main: the keys given to mbox.__setitem__ for this archive
    reports,    \* main: the summary lines printed
    archived    \* main: what the placeholders of the closed archives refer to

walkVars == <<wtree, wsize, wruns>>
nameVars == <<nname, nresult>>
storeVars == <<sdisk, slog>>
mainVars == <<pc, seen, filename, mbox, items, key, st, setitems, reports, archived>>
vars == <<walkVars, nameVars, storeVars, mainVars>>

EmptyFiles == [p \in {} |-> ""]

\* main, line 23, and a disk with nothing on it
State0 == [count |-> 0, files |-> EmptyFiles, dirs |-> {}, uuid |-> 0,
           stores |-> 0, err |-> "none"]

\* What the variables of the other components hold while one is exercised
WalkIdle == wtree = <<>> /\ wsize = 0 /\ wruns = <<>>
NameIdle == nname = <<>> /\ nresult = <<>>
StoreIdle == sdisk = State0 /\ slog = <<>>
NoMbox == [msgs |-> <<>>, file |-> <<>>, locked |-> FALSE, open |-> FALSE, calls |-> <<>>]
MainIdle ==
    /\ pc = "idle" /\ seen = {} /\ filename = <<>> /\ mbox = NoMbox /\ items = <<>>
    /\ key = 0 /\ st = State0 /\ setitems = <<>> /\ reports = <<>> /\ archived = {}

\* ------------------------------------------------------- walker: the inputs
NameA == <<"a", ".", "p", "d", "f">>
NameEml == <<"m", ".", "e", "m", "l">>
InMbox == <<"i", "n", ".", "m", "b", "o", "x">>

\* Every leaf part the classifier tells apart: content type, disposition,
\* name (given, given and ending in .eml, absent with and without a header
\* spelled 'Content-Type') and encoded size, from the threshold's least value
\* to one more than its greatest
AllLeaves ==
    {Leaf(t, d, nm[1], nm[2], n, "c1") :
        t \in {"text/plain", "text/html", "application/pdf"},
        d \in {NoDisposition, "inline", "attachment"},
        nm \in {<<NameA, TRUE>>, <<NameEml, TRUE>>, <<None, TRUE>>, <<None, FALSE>>},
        n \in 1..(MaxSize + 1)}

\* The leaves of the nested trees for threshold size: an attached a.pdf of
\* size exactly the threshold, one of one more, and one of one more whose
\* content type is text/html
ShapeLeaves(size) ==
    {l \in AllLeaves : /\ l.disp = "attachment" /\ l.fname = NameA
                       /\ \/ l.ctype = "application/pdf" /\ l.size \in {size, size + 1}
                          \/ l.ctype = "text/html" /\ l.size = size + 1}

\* The sequences of trees with n leaf parts in all, where trees[k] is the set
\* of trees with k leaf parts
RECURSIVE Forests(_, _)
Forests(trees, n) ==
    IF n = 0 THEN {<<>>}
    ELSE UNION {{<<t>> \o f : t \in trees[k], f \in Forests(trees, n - k)} : k \in 1..n}

\* Level(leaves, below, n)[k], k in 1..n: the trees with k leaf parts that are
\* a leaf or a container of trees of below (none when below is empty)
RECURSIVE Level(_, _, _)
Level(leaves, below, n) ==
    IF n = 0 THEN <<>>
    ELSE Append(Level(leaves, below, n - 1),
                (IF n = 1 THEN leaves ELSE {})
                \cup (IF below = <<>> THEN {}
                      ELSE {Container(f) : f \in Forests(below, n)}))

\* TreesOfDepth(leaves, d)[n]: the trees of depth at most d with n leaf parts
RECURSIVE TreesOfDepth(_, _)
TreesOfDepth(leaves, d) ==
    Level(leaves, IF d = 0 THEN <<>> ELSE TreesOfDepth(leaves, d - 1), MaxParts)

\* The shapes of the nested trees: every leaf is the same hole
Hole == Leaf("hole", NoDisposition, None, FALSE, 0, "")
Shapes ==
    LET trees == TreesOfDepth({Hole}, MaxDepth)
    IN  UNION {trees[n] : n \in 1..MaxParts}

RECURSIVE NumLeaves(_), NumLeavesOf(_)
NumLeavesOf(kids) ==
    IF kids = <<>> THEN 0 ELSE NumLeaves(Head(kids)) + NumLeavesOf(Tail(kids))
NumLeaves(t) == IF t.multi THEN NumLeavesOf(t.kids) ELSE 1

\* The shape with its holes filled, left to right, by leaves[from + 1], ...
RECURSIVE Fill(_, _, _), FillKids(_, _, _)
FillKids(kids, leaves, from) ==
    IF kids = <<>> THEN <<>>
    ELSE <<Fill(Head(kids), leaves, from)>>
             \o FillKids(Tail(kids), leaves, from + NumLeaves(Head(kids)))
Fill(t, leaves, from) ==
    IF t.multi THEN Container(FillKids(t.kids, leaves, from)) ELSE leaves[from + 1]

FaultModes == {"makedirs", "open", "write"}
Faults(n) == {NoFault} \cup {[at |-> k, mode |-> m] : k \in 1..n, m \in FaultModes}

WalkCtx(fault) ==
    [filename |-> InMbox, msg_date |-> GoodDate, msg_from |-> GoodFrom,
     size |-> wsize, fault |-> fault]

InitWalk ==
    /\ wsize \in 1..MaxSize
    /\ \/ wtree \in AllLeaves
       \/ \E l \in AllLeaves : wtree = Container(<<l>>)
       \/ \E shape \in Shapes :
              \E leaves \in [1..NumLeaves(shape) -> ShapeLeaves(wsize)] :
                  wtree = Fill(shape, leaves, 0)
    /\ wruns = <<>>
    /\ NameIdle /\ StoreIdle /\ MainIdle

\* walk_over_parts on the message, as main calls it with count = 0
WalkFirst ==
    /\ wruns = <<>>
    /\ \E fault \in {NoFault} :
           wruns' = <<WalkOverParts(wtree, State0, WalkCtx(fault))>>
    /\ UNCHANGED <<wtree, wsize, nameVars, storeVars, mainVars>>

\* walk_over_parts again, on the message the first run left, count = 0 again
WalkAgain ==
    /\ Len(wruns) = 1
    /\ wruns[1].st.err = "none"
    /\ \E fault \in {NoFault} :
           wruns' = Append(wruns, WalkOverParts(wruns[1].node,
                               [wruns[1].st EXCEPT !.count = 0, !.stores = 0],
                               WalkCtx(fault)))
    /\ UNCHANGED <<wtree, wsize, nameVars, storeVars, mainVars>>

NextWalk == WalkFirst \/ WalkAgain

SpecWalk == InitWalk /\ [][NextWalk]_vars

\* ------------------------------------------------------- walker: the properties
\* The positions of a tree: <<>> is the root, <<2, 1>> the first child of the
\* root's second child
RECURSIVE Paths(_)
Paths(t) ==
    {<<>>} \cup UNION {{<<i>> \o p : p \in Paths(t.kids[i])} : i \in 1..Len(t.kids)}

RECURSIVE At(_, _)
At(t, p) == IF p = <<>> THEN t ELSE At(t.kids[Head(p)], Tail(p))

Parts(t) == Paths(t) \ {<<>>}

IsPlaceholder(part) == ~part.multi /\ part.ctype = "text/plain" /\ part.text # <<>>

\* A leaf that is an attachment as section 4.2 of the specification has it
Classified(part) ==
    /\ ~part.multi
    /\ part.ctype \notin {"text/plain", "text/html"}
    /\ part.disp \in {"inline", "attachment"}
    /\ part.fname # None \/ part.hdr
    /\ ~(part.fname # None /\ EndsWith(part.fname, DotEml))

Finished(k) == Len(wruns) >= k /\ wruns[k].st.err = "none"

\* C2: an attachment whose encoded size equals the threshold stays and is not
\* counted, one whose size is one more is replaced and counted.
ThresholdIsStrict ==
    Finished(1) =>
        /\ \A p \in Parts(wtree) :
               LET a == At(wtree, p)
                   b == At(wruns[1].node, p)
               IN  Classified(a) =>
                       /\ a.size = wsize => b = a
                       /\ a.size = wsize + 1 => IsPlaceholder(b)
        /\ (\A p \in Parts(wtree) : Classified(At(wtree, p)) => At(wtree, p).size = wsize)
               => wruns[1].st.count = 0
        /\ (/\ wtree.multi
            /\ \A p \in Parts(wtree) : ~At(wtree, p).multi =>
                   Classified(At(wtree, p)) /\ At(wtree, p).size = wsize + 1)
               => wruns[1].st.count = NumLeaves(wtree)

ThresholdWitness ==
    /\ Finished(1)
    /\ \E p, q \in Parts(wtree) :
           /\ Classified(At(wtree, p)) /\ At(wtree, p).size = wsize
           /\ At(wruns[1].node, p) = At(wtree, p)
           /\ Classified(At(wtree, q)) /\ At(wtree, q).size = wsize + 1
           /\ IsPlaceholder(At(wruns[1].node, q))
           /\ wruns[1].st.count = 1

ExtractableAt(part, size) == Classified(part) /\ part.size > size
Extractable(part) == ExtractableAt(part, wsize)

\* C3: the walker replaces exactly the classified leaves above the threshold,
\* at any depth, counts each once, and leaves every other part as it was.
WalkReplacesExactly ==
    Finished(1) =>
        LET t1 == wruns[1].node IN
        /\ Paths(t1) = Paths(wtree)
        /\ ~wtree.multi => t1 = wtree
        /\ \A p \in Parts(wtree) :
               LET a == At(wtree, p)
                   b == At(t1, p)
               IN  IF a.multi THEN b.multi /\ ~IsPlaceholder(b)
                   ELSE IF Extractable(a) THEN IsPlaceholder(b)
                   ELSE b = a
        /\ wruns[1].st.count = Cardinality({p \in Parts(wtree) : Extractable(At(wtree, p))})
        /\ wruns[1].st.stores = wruns[1].st.count

WalkReplacesWitness ==
    /\ Finished(1)
    /\ \E p, q \in Parts(wtree) :
           /\ Len(p) >= 2 /\ Extractable(At(wtree, p)) /\ IsPlaceholder(At(wruns[1].node, p))
           /\ Len(q) >= 2 /\ IsTextPart(At(wtree, q)) /\ At(wruns[1].node, q) = At(wtree, q)
    /\ wruns[1].st.count = 1

\* C4: a second run over the tree a first run produced removes nothing, stores
\* nothing and leaves the tree as it is.
WalkIsIdempotent ==
    Len(wruns) = 2 =>
        /\ wruns[2].node = wruns[1].node
        /\ wruns[2].st.count = 0
        /\ wruns[2].st.stores = 0
        /\ wruns[2].st.files = wruns[1].st.files
        /\ wruns[2].st.err = "none"

IdempotentWitness ==
    /\ Len(wruns) = 2
    /\ wruns[1].st.count >= 2
    /\ \E p \in Parts(wtree) : Extractable(At(wtree, p)) /\ IsPlaceholder(At(wruns[2].node, p))

\* The name and the storage filename a placeholder records
RECURSIVE IndexOf(_, _, _)
IndexOf(s, x, i) ==
    IF i > Len(s) THEN 0 ELSE IF s[i] = x THEN i ELSE IndexOf(s, x, i + 1)

NotedStorage(part) ==
    SubSeq(part.text, IndexOf(part.text, StorageMark, 1) + 1, Len(part.text) - 1)

NotedName(part) ==
    SubSeq(part.text, 2, IndexOf(part.text, "\" with size ", 1) - 1)

\* C9: every container keeps its number of children; a child is the child
\* that was there, or the placeholder of the attachment that was there.
SingleSlotSubstitution ==
    Finished(1) =>
        \A p \in Paths(wtree) :
            LET a == At(wtree, p)
                b == At(wruns[1].node, p)
            IN  a.multi =>
                    /\ b.multi
                    /\ Len(b.kids) = Len(a.kids)
                    /\ \A i \in 1..Len(a.kids) :
                           IF a.kids[i].multi THEN b.kids[i].multi
                           ELSE \/ b.kids[i] = a.kids[i]
                                \/ /\ Extractable(a.kids[i])
                                   /\ IsPlaceholder(b.kids[i])
                                   /\ a.kids[i].fname # None
                                          => NotedName(b.kids[i]) = a.kids[i].fname
                    /\ \A i \in 1..Len(a.kids) :
                           Extractable(a.kids[i]) => IsPlaceholder(b.kids[i])

SingleSlotWitness ==
    /\ Finished(1)
    /\ \E p \in Paths(wtree) :
           LET a == At(wtree, p)
               b == At(wruns[1].node, p)
           IN  /\ a.multi /\ Len(a.kids) = 3
               /\ Extractable(a.kids[1]) /\ IsPlaceholder(b.kids[1])
               /\ ~Extractable(a.kids[2]) /\ b.kids[2] = a.kids[2]
               /\ Extractable(a.kids[3]) /\ IsPlaceholder(b.kids[3])
               /\ NotedStorage(b.kids[1]) # NotedStorage(b.kids[3])

\* ---------------------------------------------------------- the synthesizer
MaxNameLen == 2    \* characters of an attachment name given to the synthesizer

\* The thirteen characters section 4.3 of the specification reserves
ReservedChars ==
    {"<", ">", ":", "\"", "/", "\\", "|", "?", "*", "TAB", "LF", "CR", "NUL"}

NameChars == ReservedChars \cup {"a", "."}

InitName ==
    /\ \E n \in 1..MaxNameLen : nname \in [1..n -> NameChars]
    /\ nresult = <<>>
    /\ WalkIdle /\ StoreIdle /\ MainIdle

\* get_storage_filename on a Date the strict parser takes
SynthesizePlain ==
    /\ nresult = <<>>
    /\ nresult' = GetStorageFilename(nname, GoodDate, GoodFrom)
    /\ UNCHANGED <<nname, walkVars, storeVars, mainVars>>

\* get_storage_filename on a Date with a parenthesised zone name
SynthesizeParen ==
    /\ nresult = <<>>
    /\ nresult' = GetStorageFilename(nname, ParenDate, GoodFrom)
    /\ UNCHANGED <<nname, walkVars, storeVars, mainVars>>

\* get_storage_filename on headers it cannot use
SynthesizeRaises ==
    /\ nresult = <<>>
    /\ \E h \in {<<BadDate, GoodFrom>>, <<GoodDate, BadFrom>>} :
           /\ StorageFilenameRaises(h[1], h[2])
           /\ nresult' = <<"raised">>
    /\ UNCHANGED <<nname, walkVars, storeVars, mainVars>>

NextName == SynthesizePlain \/ SynthesizeParen \/ SynthesizeRaises

SpecName == InitName /\ [][NextName]_vars

\* C7: every reserved character of the composed string, the backslash among
\* them, is a '-' in the result and every other character is where it was.
SanitizedEverywhere ==
    (nresult # <<>> /\ nresult # <<"raised">>) =>
        /\ Len(nresult) = 4 + Len(nname)
        /\ \A i \in 1..Len(nresult) : nresult[i] \notin ReservedChars
        /\ \A i \in 1..Len(nname) :
               nresult[4 + i] = IF nname[i] \in ReservedChars THEN "-" ELSE nname[i]

\* ------------------------------------------------------------------ the store
MaxStores == 2     \* calls of store_attachment

InboxMbox == <<"i", "n", "b", "o", "x", ".", "m", "b", "o", "x">>
MailMbox == <<"m", "a", "i", "l", ".", "m", "b", "o", "x">>
DotMbox == <<".", "m", "b", "o", "x">>

StoreArchives == {InMbox, InboxMbox, MailMbox}

\* a:b and a/b are one name once sanitized
StoreNames == {<<"a", ":", "b">>, <<"a", "/", "b">>, NameA}

Contents == {"c1", "c2"}

InitStore ==
    /\ sdisk = State0
    /\ slog = <<>>
    /\ WalkIdle /\ NameIdle /\ MainIdle

Call(archive, name, msg_date, msg_from, data, fault) ==
    LET part == Leaf("application/pdf", "attachment", name, TRUE, MaxSize + 1, data)
        r == StoreAttachment(part, name, archive, msg_date, msg_from,
                             [sdisk EXCEPT !.stores = 0, !.err = "none"], fault)
    IN  /\ sdisk' = r.st
        /\ slog' = Append(slog, [filename |-> archive, name |-> name,
                                 msg_date |-> msg_date, msg_from |-> msg_from,
                                 data |-> data, ret |-> r.ret,
                                 before |-> DOMAIN sdisk.files])

\* store_attachment, for an attachment of a message with usable headers
Store ==
    /\ Len(slog) < MaxStores
    /\ \E archive \in StoreArchives, name \in StoreNames, data \in Contents,
          fault \in Faults(1) :
           Call(archive, name, GoodDate, GoodFrom, data, fault)
    /\ UNCHANGED <<walkVars, nameVars, mainVars>>

\* store_attachment, for an attachment of a message whose headers do not parse
StoreRaises ==
    /\ Len(slog) < MaxStores
    /\ \E h \in {<<BadDate, GoodFrom>>, <<GoodDate, BadFrom>>} :
           Call(InMbox, NameA, h[1], h[2], "c1", NoFault)
    /\ UNCHANGED <<walkVars, nameVars, mainVars>>

NextStore == Store \/ StoreRaises

SpecStore == InitStore /\ [][NextStore]_vars

Stored(e) == e.ret # None
Synthesized(e) == GetStorageFilename(e.name, e.msg_date, e.msg_from)

\* C5: of two stored attachments with one synthesized name, one folder and
\* different bytes, the first is under the plain name, the second under its
\* MD5 digest, a space and the plain name, each with its own bytes.
CollisionKeepsBoth ==
    \A i \in 1..(Len(slog) - 1) :
        LET a == slog[i]
            b == slog[Len(slog)]
            folder == StoreFolder(a.filename)
            plain == Synthesized(a)
            hashed == <<Md5Hex(b.data), " ">> \o plain
        IN  (/\ Stored(a) /\ Stored(b)
             /\ StoreFolder(b.filename) = folder
             /\ Synthesized(b) = plain
             /\ a.data # b.data
             /\ <<folder, plain>> \notin a.before)
            => /\ a.ret = plain
               /\ b.ret = hashed
               /\ {<<folder, plain>>, <<folder, hashed>>} \subseteq DOMAIN sdisk.files
               /\ sdisk.files[<<folder, plain>>] = a.data
               /\ sdisk.files[<<folder, hashed>>] = b.data

CollisionWitness ==
    /\ Len(slog) = 2
    /\ Stored(slog[1]) /\ Stored(slog[2])
    /\ slog[1].name # slog[2].name
    /\ slog[1].filename = slog[2].filename
    /\ Synthesized(slog[1]) = Synthesized(slog[2])
    /\ slog[1].data # slog[2].data
    /\ slog[2].ret # Synthesized(slog[2])
    /\ Cardinality(DOMAIN sdisk.files) = 2

Basename(archive) == SubSeq(archive, 1, Len(archive) - Len(DotMbox))

\* C6: the folder written into is the archive's filename without its trailing
\* .mbox, then ' attachments'; archives of different names have different
\* folders.
FolderIsBasename ==
    /\ \A i \in 1..Len(slog) :
           (Stored(slog[i]) /\ EndsWith(slog[i].filename, DotMbox))
               => <<Basename(slog[i].filename) \o <<" attachments">>, slog[i].ret>>
                      \in DOMAIN sdisk.files
    /\ Cardinality(sdisk.dirs)
           >= Cardinality({slog[i].filename : i \in {j \in 1..Len(slog) : Stored(slog[j])}})

\* ---------------------------------------------------------------------- main
MaxFiles == 2      \* filenames os.listdir returns
MaxMsgs == 2       \* messages of an archive

NotesTxt == <<"n", "o", "t", "e", "s", ".", "t", "x", "t">>
MainFiles == {InMbox, InboxMbox, NotesTxt}

\* The size argument of main
MainSize == MaxSize

Pdf(data) == Leaf("application/pdf", "attachment", NameA, TRUE, MainSize + 1, data)
Body == Leaf("text/plain", NoDisposition, None, TRUE, MainSize + 1, "c1")

Message(tree, msg_date, msg_from) ==
    [tree |-> tree, msg_date |-> msg_date, msg_from |-> msg_from]

\* A message that is one text part, a text with an attachment, a text with
\* another attachment of the same name and other bytes, a message of the same
\* attachment twice, and a message with an attachment and a Date that no
\* parser takes
MainMessages ==
    {Message(t, GoodDate, GoodFrom) :
        t \in {Body, Container(<<Body, Pdf("c1")>>), Container(<<Body, Pdf("c2")>>),
               Container(<<Pdf("c1"), Pdf("c1")>>)}}
    \cup {Message(Container(<<Body, Pdf("c1")>>), BadDate, GoodFrom)}

Archives == UNION {[1..n -> MainMessages] : n \in 0..MaxMsgs}

\* As line 32 would be with >= for >
WriteBackAlways(count, count_before) == count >= count_before

\* main, line 32
WriteBack(count, count_before) == count > count_before

\* As lines 26-36 would be without the finally clause
TryExitLeaks(err) == IF err = "none" THEN "flush" ELSE "crashed"

\* main, lines 26-36: where the try statement goes when its body ends, with
\* or without an exception: into the finally clause
TryExit(err) == "flush"

\* What the placeholders of the messages refer to: the path of a file and the
\* bytes of the attachment the placeholder stands for
Refs(name, before, after) ==
    {[path |-> <<StoreFolder(name), NotedStorage(At(after[k].tree, p))>>,
      data |-> At(before[k].tree, p).data] :
        <<k, p>> \in {kp \in UNION {{<<k, p>> : p \in Parts(before[k].tree)} :
                                      k \in 1..Len(before)} :
                         /\ ~IsPlaceholder(At(before[kp[1]].tree, kp[2]))
                         /\ IsPlaceholder(At(after[kp[1]].tree, kp[2]))}}

Init ==
    /\ pc = "listdir" /\ seen = {} /\ filename = <<>> /\ mbox = NoMbox /\ items = <<>>
    /\ key = 0 /\ st = State0 /\ setitems = <<>> /\ reports = <<>> /\ archived = {}
    /\ WalkIdle /\ NameIdle /\ StoreIdle

\* main, lines 20-22: a filename that does not end in .mbox
SkipFile ==
    /\ pc = "listdir" /\ Cardinality(seen) < MaxFiles
    /\ \E name \in MainFiles \ seen :
           /\ ~EndsWith(name, DotMbox)
           /\ seen' = seen \cup {name}
           /\ filename' = name
    /\ UNCHANGED <<pc, mbox, items, key, st, setitems, reports, archived,
                   walkVars, nameVars, storeVars>>

\* main, lines 20-27: the archive is opened and locked, count = 0, and
\* mbox.items() parses its messages
OpenArchive ==
    /\ pc = "listdir" /\ Cardinality(seen) < MaxFiles
    /\ \E name \in MainFiles \ seen, archive \in Archives :
           /\ EndsWith(name, DotMbox)
           /\ seen' = seen \cup {name}
           /\ filename' = name
           /\ mbox' = [msgs |-> archive, file |-> archive, locked |-> TRUE,
                       open |-> TRUE, calls |-> <<"lock">>]
           /\ items' = archive
    /\ key' = 1
    /\ st' = [st EXCEPT !.count = 0, !.stores = 0]
    /\ setitems' = <<>>
    /\ pc' = "loop"
    /\ UNCHANGED <<reports, archived, walkVars, nameVars, storeVars>>

\* main, lines 24-25: mbox.lock() raises, before the try statement
LockFails ==
    /\ pc = "listdir" /\ Cardinality(seen) < MaxFiles
    /\ \E name \in MainFiles \ seen :
           /\ EndsWith(name, DotMbox)
           /\ seen' = seen \cup {name}
           /\ filename' = name
    /\ mbox' = [NoMbox EXCEPT !.open = TRUE]
    /\ items' = <<>>
    /\ st' = [st EXCEPT !.err = "lock"]
    /\ pc' = "crashed"
    /\ UNCHANGED <<key, setitems, reports, archived, walkVars, nameVars, storeVars>>

\* main, lines 27-33: one message of the loop
ProcessMessage ==
    /\ pc = "loop" /\ key <= Len(items)
    /\ \E fault \in Faults(NumLeaves(items[key].tree)) :
           LET msg == items[key]
               count_before == st.count
               r == WalkOverParts(msg.tree, [st EXCEPT !.stores = 0],
                                  [filename |-> filename, msg_date |-> msg.msg_date,
                                   msg_from |-> msg.msg_from, size |-> MainSize,
                                   fault |-> fault])
           IN  /\ st' = r.st
               /\ IF r.st.err # "none"
                  THEN /\ pc' = TryExit(r.st.err)
                       /\ UNCHANGED <<mbox, key, setitems>>
                  ELSE /\ pc' = "loop"
                       /\ key' = key + 1
                       /\ IF WriteBack(r.st.count, count_before)
                          THEN /\ mbox' = [mbox EXCEPT !.msgs[key] = [msg EXCEPT !.tree = r.node]]
                               /\ setitems' = Append(setitems, key)
                          ELSE UNCHANGED <<mbox, setitems>>
    /\ UNCHANGED <<seen, filename, items, reports, archived, walkVars, nameVars, storeVars>>

\* main, line 27: the loop has no message left
LoopEnds ==
    /\ pc = "loop" /\ key > Len(items)
    /\ pc' = TryExit("none")
    /\ UNCHANGED <<seen, filename, mbox, items, key, st, setitems, reports, archived,
                   walkVars, nameVars, storeVars>>

\* main, line 35: mbox.flush() writes the messages set to the file
Flush ==
    /\ pc = "flush"
    /\ mbox' = [mbox EXCEPT !.file = mbox.msgs, !.calls = Append(@, "flush")]
    /\ pc' = "close"
    /\ UNCHANGED <<seen, filename, items, key, st, setitems, reports, archived,
                   walkVars, nameVars, storeVars>>

\* main, line 36: mbox.close() unlocks and closes; then the exception, if
\* one was raised, leaves main
Close ==
    /\ pc = "close"
    /\ mbox' = [mbox EXCEPT !.locked = FALSE, !.open = FALSE, !.calls = Append(@, "close")]
    /\ archived' = archived \cup Refs(filename, items, mbox.file)
    /\ pc' = IF st.err # "none" THEN "crashed" ELSE "report"
    /\ UNCHANGED <<seen, filename, items, key, st, setitems, reports,
                   walkVars, nameVars, storeVars>>

\* main, line 37
Report ==
    /\ pc = "report"
    /\ reports' = Append(reports, [filename |-> filename, count |-> st.count])
    /\ pc' = "listdir"
    /\ UNCHANGED <<seen, filename, mbox, items, key, st, setitems, archived,
                   walkVars, nameVars, storeVars>>

\* main, line 20: the directory has no filename left
Return ==
    /\ pc = "listdir"
    /\ pc' = "done"
    /\ UNCHANGED <<seen, filename, mbox, items, key, st, setitems, reports, archived,
                   walkVars, nameVars, storeVars>>

Next ==
    \/ SkipFile \/ OpenArchive \/ LockFails \/ ProcessMessage \/ LoopEnds
    \/ Flush \/ Close \/ Report \/ Return

Spec == Init /\ [][Next]_vars

\* ----------------------------------------------------------- main: the properties
Resting == pc \in {"listdir", "report", "done", "crashed"}

\* C1: once the lock is acquired, whichever way the loop over the messages
\* ends, the archive is flushed, then closed, each once, and main is never
\* outside the try statement with the archive locked or open.
ArchiveReleased ==
    /\ mbox.calls \in {<<>>, <<"lock">>, <<"lock", "flush">>, <<"lock", "flush", "close">>}
    /\ (Resting /\ mbox.calls # <<>>) =>
           /\ mbox.calls = <<"lock", "flush", "close">>
           /\ ~mbox.locked /\ ~mbox.open
    /\ mbox.locked => pc \in {"loop", "flush", "close"}
    /\ (st.err \notin {"none", "lock"}) => pc \in {"flush", "close", "crashed"}

ReleasedAfterFault ==
    /\ pc = "crashed"
    /\ st.err = "write"
    /\ key = 2
    /\ mbox.calls = <<"lock", "flush", "close">>
    /\ ~mbox.locked /\ ~mbox.open

\* The attachments the walker removes from a message
Removable(msg) ==
    {p \in Parts(msg.tree) : ExtractableAt(At(msg.tree, p), MainSize)}

RECURSIVE SumRemovable(_, _)
SumRemovable(msgs, n) ==
    IF n = 0 THEN 0 ELSE Cardinality(Removable(msgs[n])) + SumRemovable(msgs, n - 1)

Range(s) == {s[i] : i \in 1..Len(s)}

\* C8: a message is set under its own key exactly when the walker removed an
\* attachment from it, the keys of the archive stay, and the counter starts
\* at 0 for an archive and ends as the sum of the removals of its messages.
WrittenBackIffRemoved ==
    (pc \in {"loop", "flush", "close", "report"}) =>
        /\ Len(mbox.msgs) = Len(items)
        /\ Range(setitems) \subseteq 1..Len(items)
        /\ \A i, j \in 1..Len(setitems) : i < j => setitems[i] < setitems[j]
        /\ \A k \in 1..Len(items) :
               /\ k < key => (k \in Range(setitems) <=> Removable(items[k]) # {})
               /\ k >= key => k \notin Range(setitems)
               /\ k \notin Range(setitems) => mbox.msgs[k] = items[k]
               /\ k \in Range(setitems) =>
                      /\ mbox.msgs[k] # items[k]
                      /\ mbox.msgs[k].msg_date = items[k].msg_date
                      /\ mbox.msgs[k].msg_from = items[k].msg_from
        /\ st.err = "none" => st.count = SumRemovable(items, key - 1)
        /\ pc = "report" => /\ key = Len(items) + 1
                            /\ mbox.file = mbox.msgs
                            /\ st.count = SumRemovable(items, Len(items))

WrittenBackWitness ==
    /\ pc = "report"
    /\ reports # <<>>
    /\ Len(items) = 2
    /\ setitems = <<1>>
    /\ Removable(items[2]) = {}
    /\ st.count = 2

Backed(refs) ==
    \A r \in refs : r.path \in DOMAIN st.files /\ st.files[r.path] = r.data

\* C10: a placeholder of a message of the archive refers to a file that holds
\* the bytes of the attachment it stands for, in every state, after a fault
\* too; when a store fails, the message is not set and its entry in the
\* archive is as it was.
PlaceholdersAreBacked ==
    /\ Backed(archived)
    /\ Backed(Refs(filename, items, mbox.msgs))
    /\ Backed(Refs(filename, items, mbox.file))
    /\ (st.err \in {"filename", "makedirs", "open", "write"}) =>
           /\ key \notin Range(setitems)
           /\ mbox.msgs[key] = items[key]
           /\ st.count < SumRemovable(items, key)
====
